---- MODULE Spec2Model ----
(***************************************************************************)
(* State-machine model of src/train.py: the epoch loop of train() with its *)
(* early-stop and learning-rate-decay policy, the per-batch training step, *)
(* validate(), best-score tracking and the checkpoint calls.               *)
(*                                                                         *)
(* Tensors are modelled symbolically: an entry of a tensor is the pair     *)
(* <<sample, position>> it came from (Pad for a padded entry), so that the *)
(* order and the alignment of packed rows can be observed.  Learning rates *)
(* are exact rationals [num, den] in units of the configured rate.  The    *)
(* numeric state of a network is the number of optimizer steps applied to  *)
(* it ("version"); a gradient buffer is abstracted to how it was produced. *)
(* A top-5 accuracy is kept as the number of correct predictions, i.e. in  *)
(* units of 100/N percent, N the number of validation tokens of the run.   *)
(* The variable epoch counts the epochs completed: inside an epoch it is   *)
(* the value of the Python loop variable.                                  *)
(*                                                                         *)
(* observe, vals, validations and streak_lr are history variables: they    *)
(* record what happened and the program state never depends on them (vals *)
(* is recorded only in the short runs that set observe).                   *)
(***************************************************************************)
EXTENDS Integers, Sequences, FiniteSets, TLC

(* ----------------------------- bounds --------------------------------- *)
\* largest epoch budget (args.epochs) explored by the long-run specification
MaxEpochs == 22
\* largest epoch budget explored with the full history of validation scores
HistEpochs == 4
\* largest number of samples in a batch
MaxBatch == 3
\* largest decode length (caption length - 1) of a sample
MaxDecodeLen == 5

(* ------------------------ program constants --------------------------- *)
\* train.py:106  if epochs_since_improvement == 20: break
StopAfter == 20
\* train.py:109  epochs_since_improvement % 8 == 0
DecayEvery == 8
\* train.py:110  adjust_learning_rate(decoder_optimizer, 0.8): 0.8 = 4/5
ShrinkNum == 4
ShrinkDen == 5

VARIABLES
    args,                      \* [epochs, save_freq, grad_clip]
    train_loader,              \* sequence of batches; a batch is its decode lengths
    val_loader,                \* sequence of batches
    pc,                        \* position in train() / validate()
    epoch,                     \* loop variable of `for epoch in range(args.epochs)`
    epochs_since_improvement,
    best_top5acc,
    is_best,
    val_top5acc,               \* value returned by validate()
    top5accs,                  \* validate()'s AverageMeter: [sum, count]
    i,                         \* batches of train_loader consumed in this epoch
    j,                         \* batches of val_loader consumed in this validate()
    encoder,                   \* [mode, grad, version]
    decoder,                   \* [mode, grad, version]
    encoder_optimizer,         \* [lr] or None
    decoder_optimizer,         \* [lr]
    scores,                    \* packed scores of the current batch
    targets,                   \* packed targets of the current batch
    decode_lens,               \* decode lengths of the current batch
    latest,                    \* the "latest" checkpoint artifact, or None
    best,                      \* the "best" checkpoint artifact, or None
    observe,                   \* history: whether vals is being recorded
    vals,                      \* history: the validation scores returned so far
    validations,               \* history: number of calls of validate()
    streak_lr                  \* history: decoder rate when the current streak began

vars == <<args, train_loader, val_loader, pc, epoch, epochs_since_improvement,
          best_top5acc, is_best, val_top5acc, top5accs, i, j, encoder, decoder,
          encoder_optimizer, decoder_optimizer, scores, targets, decode_lens,
          latest, best, observe, vals, validations, streak_lr>>

None == [none |-> TRUE]
Pad == <<0, 0>>

(* ------------------------------ helpers ------------------------------- *)
Max(a, b) == IF a >= b THEN a ELSE b

RECURSIVE Sum(_)
Sum(s) == IF s = <<>> THEN 0 ELSE Head(s) + Sum(Tail(s))

\* descending sequences of decode lengths: what the decoder returns (spec 3)
IsDescending(s) == \A k \in 1..(Len(s) - 1) : s[k] >= s[k + 1]
Batches == UNION { {b \in [1..n -> 1..MaxDecodeLen] : IsDescending(b)} : n \in 1..MaxBatch }

(* ------------------------- learning-rate adjuster --------------------- *)
\* utils.adjust_learning_rate(optimizer, shrink_factor): every group's lr *= factor
AdjustLearningRate(optimizer, num, den) ==
    [optimizer EXCEPT !.lr = [num |-> @.num * num, den |-> @.den * den]]

(* ------------------------------ decoder ------------------------------- *)
\* decoder(imgs, caps, caplens): scores [B, T-1], caps_sorted [B, T], decode_lens
DecoderForward(lens) ==
    [scores      |-> [s \in 1..Len(lens) |->
                        [t \in 1..MaxDecodeLen |-> IF t <= lens[s] THEN <<s, t>> ELSE Pad]],
     caps_sorted |-> [s \in 1..Len(lens) |->
                        [p \in 1..(MaxDecodeLen + 1) |->
                            IF p <= lens[s] + 1 THEN <<s, p>> ELSE Pad]],
     decode_lens |-> lens]

(* ------------------------------ packing ------------------------------- *)
\* the sample-major flattening (not what pack_padded_sequence does)
RECURSIVE PackSampleMajorFrom(_, _, _)
PackSampleMajorFrom(input, lengths, s) ==
    IF s > Len(lengths) THEN <<>>
    ELSE SubSeq(input[s], 1, lengths[s]) \o PackSampleMajorFrom(input, lengths, s + 1)

PackSampleMajor(input, lengths) == PackSampleMajorFrom(input, lengths, 1)

\* number of sequences still running at timestep t (lengths are descending)
BatchSizeAt(lengths, t) == Cardinality({s \in 1..Len(lengths) : lengths[s] >= t})

RECURSIVE PackFrom(_, _, _)
PackFrom(input, lengths, t) ==
    IF t > lengths[1] THEN <<>>
    ELSE [s \in 1..BatchSizeAt(lengths, t) |-> input[s][t]] \o PackFrom(input, lengths, t + 1)

\* pack_padded_sequence(input, lengths, batch_first=True).data
PackPaddedSequence(input, lengths) == PackFrom(input, lengths, 1)

\* a slice that keeps the start token
TargetsNoShift(caps_sorted) ==
    [s \in 1..Len(caps_sorted) |-> SubSeq(caps_sorted[s], 1, Len(caps_sorted[s]) - 1)]

\* targets = caps_sorted[:, 1:]
Targets(caps_sorted) == [s \in 1..Len(caps_sorted) |-> Tail(caps_sorted[s])]

(* ------------------------- metric accumulator ------------------------ *)
\* utils.AverageMeter.update(val, n) for the top-5 accuracy of one batch: the
\* batch accuracy is correct/n, so sum grows by the batch's correct predictions
\* (accuracies are kept in units of 100/count percent)
MeterUpdate(meter, correct, n) == [sum |-> meter.sum + correct, count |-> meter.count + n]

\* utils.AverageMeter.avg over a whole validation set: the number of correct
\* predictions, in units of 100/count percent (count is the same in every epoch)
MeterAvg(meter) == meter.sum

(* ------------------------ gradients and steps ------------------------- *)
\* parameters' .grad after optimizer.zero_grad()
ZeroGrad(net) == [net EXCEPT !.grad = "zero"]

\* parameters' .grad after loss.backward(): gradients accumulate into the buffer
Backward(net) ==
    [net EXCEPT !.grad = IF @ \in {"none", "zero"} THEN "fresh" ELSE "accum"]

\* parameters' .grad after nn.utils.clip_grad_value_
ClipGradValue(net) ==
    [net EXCEPT !.grad = CASE @ = "fresh" -> "clipped"
                           [] @ = "accum" -> "accum_clipped"
                           [] OTHER -> @]

\* parameters after optimizer.step()
OptimizerStep(net) == [net EXCEPT !.version = @ + 1]

\* a zero_grad that ignores whether the encoder has an optimizer
ZeroGradEncoderAlways(enc, enc_opt) == ZeroGrad(enc)

\* train.py:152-153
ZeroGradEncoder(enc, enc_opt) == IF enc_opt # None THEN ZeroGrad(enc) ELSE enc

\* train.py:157-161, decoder part
ClipDecoder(dec, grad_clip) == IF grad_clip # "None" THEN ClipGradValue(dec) ELSE dec

\* train.py:157-161, encoder part
ClipEncoder(enc, enc_opt, grad_clip) ==
    IF grad_clip # "None" /\ enc_opt # None THEN ClipGradValue(enc) ELSE enc

\* train.py:165-166
StepEncoderOf(enc, enc_opt) == IF enc_opt # None THEN OptimizerStep(enc) ELSE enc

\* a train() that was only called before the loop: the mode is left as it is
KeepMode(net) == net

\* train.py:114-115  encoder.train(); decoder.train()
SetTrainMode(net) == [net EXCEPT !.mode = "train"]

\* train.py:205-206  encoder.eval(); decoder.eval()
SetEvalMode(net) == [net EXCEPT !.mode = "eval"]

(* --------------------------- epoch policy ----------------------------- *)
\* a stop test that is one epoch late
ShouldStopLate == epochs_since_improvement = StopAfter + 1

\* train.py:106
ShouldStop == epochs_since_improvement = StopAfter

\* a decay test without the `> 0` conjunct
ShouldDecayAtZero == epochs_since_improvement % DecayEvery = 0

\* train.py:109
ShouldDecay == epochs_since_improvement > 0 /\ epochs_since_improvement % DecayEvery = 0

\* a loop header that runs one epoch too many
LoopExhaustedLate == epoch > args.epochs

\* train.py:103  for epoch in range(args.epochs): no epoch is left
LoopExhausted == epoch >= args.epochs

\* an improvement test that accepts ties
IsBestOrTie(val, best_so_far) == val >= best_so_far

\* train.py:186
IsBest(val, best_so_far) == val > best_so_far

\* train.py:195
ShouldSave(ep, save_freq) == (ep + 1) % save_freq = 0

\* utils.save_checkpoint: the state it serialises, built from the arguments of
\* the call at train.py:197-198 (the best score is not among them)
CheckpointState(ep, esi, enc, dec, enc_opt, dec_opt) ==
    [epoch |-> ep, epochs_since_improvement |-> esi,
     encoder |-> enc.version, decoder |-> dec.version,
     encoder_optimizer |-> enc_opt, decoder_optimizer |-> dec_opt]

(* ------------------------------ actions ------------------------------- *)
\* train.py:103-122: loop header, early stop, decay, train mode
ForEpoch ==
    /\ pc = "for_epoch"
    /\ IF LoopExhausted \/ ShouldStop
       THEN /\ pc' = "done"
            /\ UNCHANGED <<encoder, decoder, encoder_optimizer, decoder_optimizer, i>>
       ELSE /\ decoder_optimizer' =
                  IF ShouldDecay
                  THEN AdjustLearningRate(decoder_optimizer, ShrinkNum, ShrinkDen)
                  ELSE decoder_optimizer
            /\ encoder_optimizer' =
                  IF ShouldDecay /\ encoder_optimizer # None
                  THEN AdjustLearningRate(encoder_optimizer, ShrinkNum, ShrinkDen)
                  ELSE encoder_optimizer
            /\ encoder' = SetTrainMode(encoder)
            /\ decoder' = SetTrainMode(decoder)
            /\ i' = 0
            /\ pc' = "for_batch"
    /\ UNCHANGED <<args, train_loader, val_loader, epoch, epochs_since_improvement,
                   best_top5acc, is_best, val_top5acc, top5accs, j, scores, targets, decode_lens,
                   latest, best, observe, vals, validations, streak_lr>>

\* train.py:124-148: next batch, forward pass, targets, packing, loss
TrainForward ==
    /\ pc = "for_batch"
    /\ i < Len(train_loader)
    /\ LET out == DecoderForward(train_loader[i + 1]) IN
         /\ scores' = PackPaddedSequence(out.scores, out.decode_lens)
         /\ targets' = PackPaddedSequence(Targets(out.caps_sorted), out.decode_lens)
         /\ decode_lens' = out.decode_lens
    /\ pc' = "zero_grad"
    /\ UNCHANGED <<args, train_loader, val_loader, epoch, epochs_since_improvement,
                   best_top5acc, is_best, val_top5acc, top5accs, i, j, encoder, decoder,
                   encoder_optimizer, decoder_optimizer, latest, best, observe, vals,
                   validations, streak_lr>>

\* train.py:151-153
ZeroGrads ==
    /\ pc = "zero_grad"
    /\ decoder' = ZeroGrad(decoder)
    /\ encoder' = ZeroGradEncoder(encoder, encoder_optimizer)
    /\ pc' = "backward"
    /\ UNCHANGED <<args, train_loader, val_loader, epoch, epochs_since_improvement,
                   best_top5acc, is_best, val_top5acc, top5accs, i, j, encoder_optimizer,
                   decoder_optimizer, scores, targets, decode_lens, latest, best,
                   observe, vals, validations, streak_lr>>

\* train.py:154
LossBackward ==
    /\ pc = "backward"
    /\ decoder' = Backward(decoder)
    /\ encoder' = Backward(encoder)
    /\ pc' = "clip"
    /\ UNCHANGED <<args, train_loader, val_loader, epoch, epochs_since_improvement,
                   best_top5acc, is_best, val_top5acc, top5accs, i, j, encoder_optimizer,
                   decoder_optimizer, scores, targets, decode_lens, latest, best,
                   observe, vals, validations, streak_lr>>

\* train.py:157-161
ClipGrads ==
    /\ pc = "clip"
    /\ decoder' = ClipDecoder(decoder, args.grad_clip)
    /\ encoder' = ClipEncoder(encoder, encoder_optimizer, args.grad_clip)
    /\ pc' = "step_decoder"
    /\ UNCHANGED <<args, train_loader, val_loader, epoch, epochs_since_improvement,
                   best_top5acc, is_best, val_top5acc, top5accs, i, j, encoder_optimizer,
                   decoder_optimizer, scores, targets, decode_lens, latest, best,
                   observe, vals, validations, streak_lr>>

\* train.py:164
StepDecoder ==
    /\ pc = "step_decoder"
    /\ decoder' = OptimizerStep(decoder)
    /\ pc' = "step_encoder"
    /\ UNCHANGED <<args, train_loader, val_loader, epoch, epochs_since_improvement,
                   best_top5acc, is_best, val_top5acc, top5accs, i, j, encoder, encoder_optimizer,
                   decoder_optimizer, scores, targets, decode_lens, latest, best,
                   observe, vals, validations, streak_lr>>

\* train.py:165-166
StepEncoder ==
    /\ pc = "step_encoder"
    /\ encoder' = StepEncoderOf(encoder, encoder_optimizer)
    /\ pc' = "meters"
    /\ UNCHANGED <<args, train_loader, val_loader, epoch, epochs_since_improvement,
                   best_top5acc, is_best, val_top5acc, top5accs, i, j, decoder, encoder_optimizer,
                   decoder_optimizer, scores, targets, decode_lens, latest, best,
                   observe, vals, validations, streak_lr>>

\* train.py:168-183: accuracy, meters, log line; the loop moves to the next batch
UpdateMeters ==
    /\ pc = "meters"
    /\ i' = i + 1
    /\ pc' = "for_batch"
    /\ UNCHANGED <<args, train_loader, val_loader, epoch, epochs_since_improvement,
                   best_top5acc, is_best, val_top5acc, top5accs, j, encoder, decoder,
                   encoder_optimizer, decoder_optimizer, scores, targets, decode_lens,
                   latest, best, observe, vals, validations, streak_lr>>

\* train.py:184-185 and 201-208: the batch loop is over, validate() is entered
ValidateBegin ==
    /\ pc = "for_batch"
    /\ i >= Len(train_loader)
    /\ encoder' = SetEvalMode(encoder)
    /\ decoder' = SetEvalMode(decoder)
    /\ j' = 0
    /\ top5accs' = [sum |-> 0, count |-> 0]
    /\ validations' = validations + 1
    /\ pc' = "val_for"
    /\ UNCHANGED <<args, train_loader, val_loader, epoch, epochs_since_improvement,
                   best_top5acc, is_best, val_top5acc, i, encoder_optimizer,
                   decoder_optimizer, scores, targets, decode_lens, latest, best,
                   observe, vals, streak_lr>>

\* train.py:209-231: one validation batch
ValidateBatch ==
    /\ pc = "val_for"
    /\ j < Len(val_loader)
    /\ LET out == DecoderForward(val_loader[j + 1]) IN
         /\ scores' = PackPaddedSequence(out.scores, out.decode_lens)
         /\ targets' = PackPaddedSequence(Targets(out.caps_sorted), out.decode_lens)
         /\ decode_lens' = out.decode_lens
         /\ \E correct \in 0..Sum(out.decode_lens) :
              top5accs' = MeterUpdate(top5accs, correct, Sum(out.decode_lens))
    /\ j' = j + 1
    /\ UNCHANGED <<args, train_loader, val_loader, pc, epoch, epochs_since_improvement,
                   best_top5acc, is_best, val_top5acc, i, encoder, decoder,
                   encoder_optimizer, decoder_optimizer, latest, best, observe, vals,
                   validations, streak_lr>>

\* train.py:233-239: validate() returns top5accs.avg
ValidateReturn ==
    /\ pc = "val_for"
    /\ j >= Len(val_loader)
    /\ val_top5acc' = MeterAvg(top5accs)
    /\ vals' = IF observe THEN Append(vals, MeterAvg(top5accs)) ELSE vals
    /\ pc' = "end_epoch"
    /\ UNCHANGED <<args, train_loader, val_loader, epoch, epochs_since_improvement,
                   best_top5acc, is_best, top5accs, i, j, encoder, decoder,
                   encoder_optimizer, decoder_optimizer, scores, targets, decode_lens,
                   latest, best, observe, validations, streak_lr>>

\* train.py:186-198: best tracking, streak counter, checkpoint; the loop advances
EndEpoch ==
    /\ pc = "end_epoch"
    /\ LET ib  == IsBest(val_top5acc, best_top5acc)
           esi == IF ~ib THEN epochs_since_improvement + 1 ELSE 0
           ckpt == CheckpointState(epoch, esi, encoder, decoder,
                                   encoder_optimizer, decoder_optimizer)
       IN /\ is_best' = ib
          /\ best_top5acc' = Max(val_top5acc, best_top5acc)
          /\ epochs_since_improvement' = esi
          /\ IF ShouldSave(epoch, args.save_freq)
             THEN /\ latest' = ckpt
                  /\ best' = IF ib THEN ckpt ELSE best
             ELSE UNCHANGED <<latest, best>>
          /\ streak_lr' = IF ib THEN decoder_optimizer.lr ELSE streak_lr
    /\ epoch' = epoch + 1
    /\ pc' = "for_epoch"
    /\ UNCHANGED <<args, train_loader, val_loader, val_top5acc, top5accs, i, j,
                   encoder, decoder, encoder_optimizer, decoder_optimizer, scores, targets, decode_lens,
                   observe, vals, validations>>

Next ==
    \/ ForEpoch
    \/ TrainForward
    \/ ZeroGrads
    \/ LossBackward
    \/ ClipGrads
    \/ StepDecoder
    \/ StepEncoder
    \/ UpdateMeters
    \/ ValidateBegin
    \/ ValidateBatch
    \/ ValidateReturn
    \/ EndEpoch

(* --------------------------- initial states --------------------------- *)
UnitRate == [num |-> 1, den |-> 1]

\* train.py:68-80 and 100-102: fresh networks and optimizers, zeroed progress
Start(a, tl, vl, enc_opt, obs) ==
    /\ args = a
    /\ train_loader = tl
    /\ val_loader = vl
    /\ pc = "for_epoch"
    /\ epoch = 0
    /\ epochs_since_improvement = 0
    /\ best_top5acc = 0
    /\ is_best = FALSE
    /\ val_top5acc = 0
    /\ top5accs = [sum |-> 0, count |-> 0]
    /\ i = 0
    /\ j = 0
    /\ encoder = [mode |-> "train", grad |-> "none", version |-> 0]
    /\ decoder = [mode |-> "train", grad |-> "none", version |-> 0]
    /\ encoder_optimizer = enc_opt
    /\ decoder_optimizer = [lr |-> UnitRate]
    /\ scores = <<>>
    /\ targets = <<>>
    /\ decode_lens = <<>>
    /\ latest = None
    /\ best = None
    /\ observe = obs
    /\ vals = <<>>
    /\ validations = 0
    /\ streak_lr = UnitRate

EncoderOptimizers == {None, [lr |-> UnitRate]}
GradClips == {"None", "5.0"}

\* the two-batch loader of the long runs
FixedLoader == << <<2, 1>>, <<1>> >>

\* long runs: budgets that let the early stop happen
Init ==
    \E ep \in {1, MaxEpochs - 1, MaxEpochs}, sf \in 1..3, gc \in GradClips,
       eo \in EncoderOptimizers :
        Start([epochs |-> ep, save_freq |-> sf, grad_clip |-> gc],
              FixedLoader, << <<2>> >>, eo, FALSE)

Spec == Init /\ [][Next]_vars

\* every epoch budget, for the runs checked for termination
InitFair ==
    \E ep \in 1..MaxEpochs, eo \in EncoderOptimizers :
        Start([epochs |-> ep, save_freq |-> 2, grad_clip |-> "5.0"],
              FixedLoader, << <<1>> >>, eo, FALSE)

\* the loop is sequential code: it keeps running until it returns
FairSpec == InitFair /\ [][Next]_vars /\ WF_vars(Next)

\* short runs with the history of validation scores recorded
InitBest ==
    \E ep \in 1..HistEpochs, sf \in 1..3, eo \in EncoderOptimizers :
        Start([epochs |-> ep, save_freq |-> sf, grad_clip |-> "5.0"],
              << <<1>> >>, << <<2, 1>>, <<1>> >>, eo, TRUE)

SpecBest == InitBest /\ [][Next]_vars

\* one epoch over every one-batch data set, used for training and for validation
InitPack ==
    \E b \in Batches, eo \in EncoderOptimizers :
        Start([epochs |-> 1, save_freq |-> 1, grad_clip |-> "5.0"],
              <<b>>, <<b>>, eo, FALSE)

SpecPack == InitPack /\ [][Next]_vars

(* ======================= properties of the run ======================== *)
Progress == <<epoch, epochs_since_improvement, best_top5acc, is_best>>
Numeric(net) == <<net.grad, net.version>>
TrainStepPcs == {"zero_grad", "backward", "clip", "step_decoder", "step_encoder", "meters"}

\* the gradient an optimizer step should find: zeroed, back-propagated once, clipped
ExpectedGrad == IF args.grad_clip # "None" THEN "clipped" ELSE "fresh"

\* a * 100 = b * percent, for rationals a and b
RateIs(a, b, percent) == a.num * b.den * 100 = b.num * a.den * percent

\* decays applied so far in the current streak of non-improving epochs
DecaysInStreak ==
    LET passed(k) == \/ epochs_since_improvement > k
                     \/ epochs_since_improvement = k /\ pc \notin {"for_epoch", "done"}
    IN (IF passed(DecayEvery) THEN 1 ELSE 0) + (IF passed(2 * DecayEvery) THEN 1 ELSE 0)

RECURSIVE RunMax(_)
\* max(0, v_1, ..., v_n)
RunMax(s) == IF s = <<>> THEN 0 ELSE Max(s[Len(s)], RunMax(SubSeq(s, 1, Len(s) - 1)))

\* whether epoch k (1-based) improved on everything before it
Improved(k) == vals[k] > RunMax(SubSeq(vals, 1, k - 1))

\* the last improving epoch among the first n (1-based), 0 if there is none
LastImproved(n) ==
    LET S == {k \in 1..n : Improved(k)}
    IN IF S = {} THEN 0 ELSE CHOOSE k \in S : \A m \in S : m <= k

(* C1: early stop.  The counter never exceeds 20; the loop ends before its     *)
(* budget only with the counter at 20; an epoch that would start with the      *)
(* counter at 20 does not start: the loop ends there with nothing else         *)
(* changed (no training, validation, decay or save), and nothing happens       *)
(* after the loop has ended.                                                   *)
EarlyStop ==
    /\ [](epochs_since_improvement <= StopAfter)
    /\ [](pc = "done" /\ epoch < args.epochs => epochs_since_improvement = StopAfter)
    /\ [][pc = "for_epoch" /\ epochs_since_improvement = StopAfter =>
            /\ pc' = "done"
            /\ UNCHANGED <<epoch, epochs_since_improvement, best_top5acc, is_best,
                           i, j, encoder, decoder, encoder_optimizer, decoder_optimizer,
                           latest, best, validations>>]_vars
    /\ [][pc # "done"]_vars

EarlyStopWitness ==
    /\ pc = "done"
    /\ epochs_since_improvement = StopAfter
    /\ epoch < args.epochs
    /\ validations = epoch
    /\ best_top5acc > 0

(* C2: decay trigger.  A learning rate changes only in the loop-header step of *)
(* an epoch that is about to train with the counter at 8 or 16; that step      *)
(* multiplies the decoder rate, and the encoder rate if there is an encoder    *)
(* optimizer, by 0.8 and leaves the counter alone; so within a streak the rate *)
(* is 1, 0.8 or 0.64 times its value at the start of the streak according to   *)
(* whether the decays at 8 and at 16 have happened.                            *)
DecayTrigger ==
    /\ [][decoder_optimizer' # decoder_optimizer \/ encoder_optimizer' # encoder_optimizer =>
            /\ pc = "for_epoch" /\ pc' = "for_batch" /\ i' = 0
            /\ epochs_since_improvement \in {DecayEvery, 2 * DecayEvery}]_vars
    /\ [][pc = "for_epoch" /\ pc' = "for_batch"
          /\ epochs_since_improvement \in {DecayEvery, 2 * DecayEvery} =>
            /\ RateIs(decoder_optimizer'.lr, decoder_optimizer.lr, 80)
            /\ (encoder_optimizer = None) = (encoder_optimizer' = None)
            /\ encoder_optimizer # None =>
                 RateIs(encoder_optimizer'.lr, encoder_optimizer.lr, 80)]_vars
    /\ [][pc = "for_epoch" => epochs_since_improvement' = epochs_since_improvement]_vars
    /\ [](RateIs(decoder_optimizer.lr, streak_lr,
                 CASE DecaysInStreak = 0 -> 100
                   [] DecaysInStreak = 1 -> 80
                   [] OTHER -> 64))
    /\ [](encoder_optimizer # None => encoder_optimizer.lr = decoder_optimizer.lr)

DecayTriggerWitness ==
    /\ pc = "for_batch"
    /\ epochs_since_improvement = 2 * DecayEvery
    /\ encoder_optimizer # None
    /\ streak_lr = UnitRate
    /\ decoder_optimizer.lr = [num |-> 16, den |-> 25]

(* C3: best tracking.  After n completed epochs with validation scores         *)
(* v_1..v_n: best_top5acc = max(0, v_1..v_n); is_best tells whether v_n is     *)
(* strictly greater than max(0, v_1..v_(n-1)); the counter is n minus the      *)
(* index of the last improving epoch (0 if none); the best never decreases.    *)
BestTracking ==
    /\ [](observe =>
            /\ best_top5acc = RunMax(SubSeq(vals, 1, epoch))
            /\ epoch > 0 => (is_best <=> Improved(epoch))
            /\ epochs_since_improvement = epoch - LastImproved(epoch))
    /\ [][best_top5acc' >= best_top5acc]_vars

BestTrackingWitness ==
    /\ pc = "for_epoch"
    /\ vals = <<1, 3, 2, 4>>
    /\ is_best
    /\ best_top5acc = 4
    /\ epochs_since_improvement = 0

(* C4: progress persisted in checkpoints.  After every completed epoch whose   *)
(* number (epoch + 1) is a multiple of save_freq the "latest" artifact is the  *)
(* checkpoint of that epoch, otherwise it is untouched; the checkpoint carries *)
(* the epoch counter, the updated counter of non-improving epochs (0 exactly   *)
(* when is_best) and a best score equal to the current best_top5acc.           *)
CheckpointCarriesProgress ==
    pc = "for_epoch" /\ epoch > 0 =>
        LET saved == (epoch \div args.save_freq) * args.save_freq IN
        IF saved = 0 THEN latest = None
        ELSE /\ latest # None
             /\ latest.epoch = saved - 1
             /\ saved = epoch =>
                  /\ latest.epochs_since_improvement = epochs_since_improvement
                  /\ (latest.epochs_since_improvement = 0) <=> is_best
                  /\ "best_score" \in DOMAIN latest
                  /\ latest.best_score = best_top5acc

(* C5: best-so-far copy.  Once an improving epoch has completed, the "best"    *)
(* artifact exists and is the checkpoint of the epoch that achieved the        *)
(* current best_top5acc: it holds the networks as they were at the end of that *)
(* epoch.                                                                      *)
BestCopyRetained ==
    observe /\ pc \in {"for_epoch", "done"} /\ LastImproved(epoch) > 0 =>
        /\ best # None
        /\ best.epoch = LastImproved(epoch) - 1
        /\ best.decoder = LastImproved(epoch) * Len(train_loader)

(* C6: termination.  Under the sequential execution of the loop the run ends;  *)
(* it never runs more than args.epochs epochs; it ends with fewer only with    *)
(* the counter at 20; and every epoch that was counted ran all its training    *)
(* batches and one validation (no epoch is skipped or cut short).              *)
Termination ==
    /\ <>(pc = "done")
    /\ [](epoch <= args.epochs)
    /\ [](pc = "done" =>
            /\ epoch < args.epochs => epochs_since_improvement = StopAfter
            /\ epochs_since_improvement < StopAfter => epoch = args.epochs
            /\ validations = epoch
            /\ decoder.version = epoch * Len(train_loader))

TerminationWitness ==
    /\ pc = "done"
    /\ epoch = args.epochs
    /\ args.epochs > 1
    /\ epochs_since_improvement > 2 * DecayEvery
    /\ epochs_since_improvement < StopAfter
    /\ latest # None

(* C7 as stated: the packed rows are in sample-major order (every row is       *)
(* followed by the next timestep of the same sample or by the first timestep   *)
(* of the next sample).                                                        *)
PackingSampleMajor ==
    scores # <<>> =>
        /\ Len(scores) = Sum(decode_lens)
        /\ \A k \in 1..(Len(scores) - 1) :
             \/ scores[k + 1] = <<scores[k][1], scores[k][2] + 1>>
             \/ scores[k + 1] = <<scores[k][1] + 1, 1>>

(* C7 amended: the packed rows are in time-major order: timestep by timestep,  *)
(* and within a timestep the samples still running, in batch (descending       *)
(* length) order; there are sum(decode_lens) rows, none of them padding; for   *)
(* decode_lens = [5,3,2] the 10 rows are those listed.                         *)
PackingTimeMajor ==
    scores # <<>> =>
        /\ Len(scores) = Sum(decode_lens)
        /\ Len(targets) = Sum(decode_lens)
        /\ \A k \in 1..Len(scores) : scores[k] # Pad /\ targets[k] # Pad
        /\ \A k \in 1..(Len(scores) - 1) :
             /\ \/ scores[k][2] < scores[k + 1][2]
                \/ scores[k][2] = scores[k + 1][2] /\ scores[k][1] < scores[k + 1][1]
             /\ \/ targets[k][2] < targets[k + 1][2]
                \/ targets[k][2] = targets[k + 1][2] /\ targets[k][1] < targets[k + 1][1]
        /\ decode_lens = <<5, 3, 2>> =>
             scores = << <<1, 1>>, <<2, 1>>, <<3, 1>>, <<1, 2>>, <<2, 2>>, <<3, 2>>,
                         <<1, 3>>, <<2, 3>>, <<1, 4>>, <<1, 5>> >>

PackingTimeMajorWitness ==
    /\ pc = "zero_grad"
    /\ decode_lens = <<5, 3, 2>>
    /\ Len(scores) = 10
    /\ scores[2] = <<2, 1>>
    /\ scores[10] = <<1, 5>>

(* C8: packing alignment.  In the training step and in the validation step the *)
(* packed scores and the packed targets both have sum(decode_lens) rows, the   *)
(* rows are exactly the positions (sample s, timestep t) with                  *)
(* t <= decode_lens[s], and row k of the targets is token t+1 of the sample    *)
(* whose timestep t is row k of the scores; no target is a start token.        *)
PackingAlignment ==
    scores # <<>> =>
        /\ Len(scores) = Sum(decode_lens)
        /\ Len(targets) = Sum(decode_lens)
        /\ {scores[k] : k \in 1..Len(scores)} =
             {<<s, t>> : s \in 1..Len(decode_lens), t \in 1..MaxDecodeLen} \
               {<<s, t>> \in (1..Len(decode_lens)) \X (1..MaxDecodeLen) : t > decode_lens[s]}
        /\ \A k \in 1..Len(scores) :
             /\ targets[k] = <<scores[k][1], scores[k][2] + 1>>
             /\ targets[k][2] # 1

PackingAlignmentWitness ==
    /\ pc = "val_for"
    /\ j = 1
    /\ decoder.version = 1
    /\ decode_lens = <<4, 2, 2>>
    /\ targets[3] = <<3, 2>>
    /\ targets[7] = <<1, 4>>

(* C9: training-step ordering.  Every optimizer step applies a gradient that   *)
(* was zeroed, then back-propagated once, then clipped if a threshold is       *)
(* configured; the encoder steps only after the decoder has stepped for the    *)
(* same batch; each network with an optimizer is stepped once per batch;       *)
(* without an encoder optimizer the encoder is never zeroed, clipped or        *)
(* stepped; without a threshold nothing is ever clipped.                       *)
TrainingStepOrder ==
    /\ [][decoder.version' # decoder.version =>
            /\ decoder.grad = ExpectedGrad
            /\ decoder.version' = decoder.version + 1
            /\ encoder_optimizer # None =>
                 encoder.grad = ExpectedGrad /\ encoder.version = decoder.version]_vars
    /\ [][encoder.version' # encoder.version =>
            /\ encoder_optimizer # None
            /\ encoder.grad = ExpectedGrad
            /\ encoder.version' = encoder.version + 1
            /\ decoder.version = encoder.version']_vars
    /\ [](pc = "for_batch" =>
            /\ decoder.version = epoch * Len(train_loader) + i
            /\ encoder_optimizer # None => encoder.version = decoder.version)
    /\ [](decoder.grad \notin {"accum", "accum_clipped"})
    /\ [](encoder_optimizer # None => encoder.grad \notin {"accum", "accum_clipped"})
    /\ [](encoder_optimizer = None =>
            encoder.version = 0 /\ encoder.grad \in {"none", "fresh", "accum"})
    /\ [](args.grad_clip = "None" =>
            /\ decoder.grad \notin {"clipped", "accum_clipped"}
            /\ encoder.grad \notin {"clipped", "accum_clipped"})

TrainingStepOrderWitness ==
    /\ pc = "meters"
    /\ encoder_optimizer = None
    /\ args.grad_clip # "None"
    /\ decoder.grad = "clipped"
    /\ encoder.grad = "accum"
    /\ decoder.version = 2 * Len(train_loader)

(* C10: phase discipline.  Every training step runs with both networks in      *)
(* training mode, the whole of validate() with both in evaluation mode;        *)
(* entering, running and leaving validate() changes no gradient, weight,       *)
(* optimizer or learning rate and no training progress; validate() is entered  *)
(* only after the last training batch of the epoch, once per epoch.            *)
PhaseDiscipline ==
    /\ [](pc \in TrainStepPcs => encoder.mode = "train" /\ decoder.mode = "train")
    /\ [](pc = "val_for" => encoder.mode = "eval" /\ decoder.mode = "eval")
    /\ [][pc = "val_for" \/ pc' = "val_for" =>
            UNCHANGED <<Numeric(encoder), Numeric(decoder), encoder_optimizer,
                        decoder_optimizer, Progress, latest, best>>]_vars
    /\ [](pc = "val_for" =>
            /\ i = Len(train_loader)
            /\ decoder.version = (epoch + 1) * Len(train_loader))
    /\ [](validations = IF pc \in {"val_for", "end_epoch"} THEN epoch + 1 ELSE epoch)

PhaseDisciplineWitness ==
    /\ pc = "val_for"
    /\ epoch >= 1
    /\ j = Len(val_loader)
    /\ encoder.mode = "eval"
    /\ decoder.mode = "eval"
    /\ encoder.version > 0

====
